---- MODULE Spec2Model ----
(***************************************************************************)
(* Session store (AuthProvider) and API client (axios interceptors) of     *)
(* the BadProxy admin console.                                             *)
(*                                                                         *)
(* One step of the model is one event-loop task of the browser: a UI call  *)
(* of a store method up to its first network await, the arrival of a       *)
(* response together with the interceptor, the synchronous listeners and   *)
(* the caller's continuation, or one timer callback.  React batches the    *)
(* state updates of a task, re-renders, and runs the effects whose         *)
(* dependencies changed; that is part of the step (Commit).  A             *)
(* function of the component closes over the state of the render that      *)
(* created it, so a request in flight and an interval callback carry the   *)
(* values they captured (fields cAuth, cErr, cUser, cExpiry).              *)
(*                                                                         *)
(* Time is counted in units of 5 minutes.                                  *)
(***************************************************************************)
EXTENDS Integers, Sequences, FiniteSets, TLC

\* ------------------------------------------------------------------ bounds
MaxNow == 1
MaxInFlight == 2

\* --------------------------------------------------------------- constants
\* null of a string-valued slot (token, user, error, health)
NULL == "null"
\* null of the Date-valued slot tokenExpiry
NoDate == -1
\* localStorage.getItem of a key that is not there
Absent == <<>>

\* 5 * 60 * 1000 ms, in units of 5 minutes
LowWaterMark == 1
\* 30 * 60 * 1000 ms, in units of 5 minutes
RenewWindow == 6

\* values the backend may answer with
Tokens == {"t1", "t2"}
Users == {"admin", "guest"}
\* expires_in of the login response: 300 s and 2100 s
ExpiresIn == {1, 7}
\* 0 stands for a failure without a response (network error, timeout)
FailStatuses == {0, 400, 401, 403, 500}
\* statuses the backend uses to reject a credential pair
RejectStatuses == {400, 401}
Credentials == {"good", "bad"}

SessionExpiredMsg == "Your session has expired. Please log in again."
HealthOk == "healthy"

\* message of the AxiosError the transport rejects with
ErrMessage(status) ==
  CASE status = 0   -> "Network Error"
    [] status = 400 -> "Request failed with status code 400"
    [] status = 401 -> "Request failed with status code 401"
    [] status = 403 -> "Request failed with status code 403"
    [] status = 500 -> "Request failed with status code 500"

\* err.message.includes('401') on the messages above
Includes401(msg) == msg = "Request failed with status code 401"

\* Date.prototype.toISOString / new Date(string): millisecond precision both
\* ways, a different representation
toISOString(t) == <<"iso", t>>
ParseDate(s) == IF Len(s) = 2 /\ s[1] = "iso" THEN s[2] ELSE NoDate
\* JSON.stringify / JSON.parse of the user record
JSONstringify(u) == <<"json", u>>
JSONparses(s) == Len(s) = 2 /\ s[1] = "json"
JSONparse(s) == s[2]
\* a stored string
Str(x) == <<"str", x>>
Unstr(s) == s[2]

is_admin(u) == u = "admin"

\* ------------------------------------------------------------------- state
VARIABLES
  store,       \* the useState slots of AuthProvider
  ls,          \* localStorage: badproxy_token, badproxy_user, badproxy_token_expiry
  authToken,   \* the token slot of the API client
  inflight,    \* requests issued and not yet answered
  expiryTimer, \* the interval of the expiry-watch effect and what it captured
  healthTimer, \* the interval of the periodic health effect and what it captured
  now          \* Date.now()

vars == <<store, ls, authToken, inflight, expiryTimer, healthTimer, now>>

EmptyStore ==
  [isAuthenticated |-> FALSE, user |-> NULL, token |-> NULL,
   tokenExpiry |-> NoDate, isConnected |-> FALSE,
   health |-> NULL, isLoading |-> TRUE, error |-> NULL]

EmptyLS == [token |-> Absent, user |-> Absent, expiry |-> Absent]

NoExpiryTimer == [on |-> FALSE, cExpiry |-> NoDate, cUser |-> NULL]
NoHealthTimer == [on |-> FALSE, cErr |-> FALSE]

\* the part of the state the functions of the store and of the client act on;
\* events is the list of signals dispatched on window during the step, seen
\* the client's token slot as it was at each dispatch, and
\* written is TRUE when setTokenExpiry was given a new Date object
World == [store |-> store, ls |-> ls, authToken |-> authToken,
          events |-> <<>>, seen |-> <<>>,
          written |-> FALSE]

\* a request in flight and what its continuation captured of the render whose
\* function issued it, as far as the continuation reads it: cAuth is
\* isAuthenticated (read by login and initializeApi), cErr is TRUE when error
\* was set (refreshHealth reads only !error), init is TRUE for the health
\* request of an initializeApi that goes on with refreshUserInfo afterwards
\* (its render was authenticated; otherwise initializeApi ends with the
\* health answer, like a direct call of refreshHealth)
Request(kind, cred, init, cAuth, cErr) ==
  [kind |-> kind, cred |-> cred, init |-> init, cAuth |-> cAuth, cErr |-> cErr]

\* ------------------------------------------------------- store functions
setError(w, msg) == [w EXCEPT !.store.error = msg]

\* logout that forgets apiService.clearAuthToken()
logoutKeepsClientToken(w) ==
  [w EXCEPT !.store.isAuthenticated = FALSE,
            !.store.user = NULL,
            !.store.token = NULL,
            !.store.tokenExpiry = NoDate,
            !.ls = EmptyLS,
            !.store.isConnected = FALSE,
            !.store.health = NULL,
            !.store.error = NULL]

\* logout that leaves the stored user record behind
logoutKeepsUserKey(w) ==
  [w EXCEPT !.store.isAuthenticated = FALSE,
            !.store.user = NULL,
            !.store.token = NULL,
            !.store.tokenExpiry = NoDate,
            !.ls.token = Absent,
            !.ls.expiry = Absent,
            !.authToken = NULL,
            !.store.isConnected = FALSE,
            !.store.health = NULL,
            !.store.error = NULL]

\* logout that forgets setTokenExpiry(null)
logoutKeepsExpiry(w) ==
  [w EXCEPT !.store.isAuthenticated = FALSE,
            !.store.user = NULL,
            !.store.token = NULL,
            !.ls = EmptyLS,
            !.authToken = NULL,
            !.store.isConnected = FALSE,
            !.store.health = NULL,
            !.store.error = NULL]

logout(w) ==
  [w EXCEPT !.store.isAuthenticated = FALSE,
            !.store.user = NULL,
            !.store.token = NULL,
            !.store.tokenExpiry = NoDate,
            !.ls = EmptyLS,
            !.authToken = NULL,
            !.store.isConnected = FALSE,
            !.store.health = NULL,
            !.store.error = NULL]

\* a listener that shows the message and does not log out
handleAuthExpiredNoLogout(w) == setError(w, SessionExpiredMsg)

handleAuthExpired(w) == setError(logout(w), SessionExpiredMsg)

\* window.dispatchEvent: the listeners run synchronously
dispatchEvent(w, name) ==
  LET w1 == [w EXCEPT !.events = Append(@, name),
                      !.seen = Append(@, w.authToken)]
  IN  IF name = "auth-expired" THEN handleAuthExpired(w1) ELSE w1

\* the request interceptor: the Authorization header it gives a request
\* issued in world w
requestInterceptor(w) ==
  IF w.authToken # NULL THEN <<"Bearer", w.authToken>> ELSE Absent

\* an error handler that broadcasts auth-expired before it clears the token
responseErrorBroadcastsFirst(w, status) ==
  LET w0 == IF status = 401 THEN dispatchEvent(w, "auth-expired") ELSE w
      w1 == IF status = 401
              THEN [w0 EXCEPT !.authToken = NULL, !.ls = EmptyLS] ELSE w0
      w2 == IF status = 403 THEN dispatchEvent(w1, "access-denied") ELSE w1
      w3 == IF status # 0 /\ status >= 500
              THEN dispatchEvent(w2, "server-error") ELSE w2
  IN  w3

\* error handler of the response interceptor
responseError(w, status) ==
  LET w1 == IF status = 401
              THEN dispatchEvent([w EXCEPT !.authToken = NULL, !.ls = EmptyLS],
                                 "auth-expired")
              ELSE w
      w2 == IF status = 403 THEN dispatchEvent(w1, "access-denied") ELSE w1
      w3 == IF status # 0 /\ status >= 500
              THEN dispatchEvent(w2, "server-error") ELSE w2
  IN  w3

\* refreshToken as created by a render whose user was cUser
refreshTokenOk(cUser) == cUser # NULL
refreshToken(w, cUser, t) ==
  IF ~refreshTokenOk(cUser) THEN w
  ELSE [w EXCEPT !.store.tokenExpiry = t + RenewWindow,
                 !.ls.expiry = toISOString(t + RenewWindow),
                 !.written = TRUE]

\* a check that logs out only once the expiry instant is strictly past
checkTokenExpiryStrictlyPast(w, cExpiry, cUser, t) ==
  LET timeUntilExpiry == cExpiry - t
      w1 == IF timeUntilExpiry <= LowWaterMark /\ timeUntilExpiry > 0
              THEN refreshToken(w, cUser, t) ELSE w
      w2 == IF timeUntilExpiry < 0
              THEN setError(logout(w1), SessionExpiredMsg) ELSE w1
  IN  w2

\* checkTokenExpiry as created by a render whose tokenExpiry was cExpiry
checkTokenExpiry(w, cExpiry, cUser, t) ==
  LET timeUntilExpiry == cExpiry - t
      w1 == IF timeUntilExpiry <= LowWaterMark /\ timeUntilExpiry > 0
              THEN refreshToken(w, cUser, t) ELSE w
      w2 == IF timeUntilExpiry <= 0
              THEN setError(logout(w1), SessionExpiredMsg) ELSE w1
  IN  w2

\* a mount effect that restores the store and not the client's token
restoreNoClientToken(w, t) ==
  LET storedToken == w.ls.token
      storedUser == w.ls.user
      storedExpiry == w.ls.expiry
      w1 ==
        IF storedToken # Absent /\ storedUser # Absent
          THEN IF JSONparses(storedUser)
                 THEN LET expiry == IF storedExpiry # Absent
                                      THEN ParseDate(storedExpiry) ELSE NoDate
                      IN  IF expiry # NoDate /\ expiry > t
                            THEN [w EXCEPT !.store.token = Unstr(storedToken),
                                           !.store.user = JSONparse(storedUser),
                                           !.store.tokenExpiry = expiry,
                                           !.store.isAuthenticated = TRUE,
                                           !.written = TRUE]
                            ELSE logout(w)
                 ELSE logout(w)
          ELSE w
  IN  [w1 EXCEPT !.store.isLoading = FALSE]

\* a mount effect that leaves an expired snapshot where it is
restoreKeepsExpired(w, t) ==
  LET storedToken == w.ls.token
      storedUser == w.ls.user
      storedExpiry == w.ls.expiry
      w1 ==
        IF storedToken # Absent /\ storedUser # Absent
          THEN IF JSONparses(storedUser)
                 THEN LET expiry == IF storedExpiry # Absent
                                      THEN ParseDate(storedExpiry) ELSE NoDate
                      IN  IF expiry # NoDate /\ expiry > t
                            THEN [w EXCEPT !.store.token = Unstr(storedToken),
                                           !.store.user = JSONparse(storedUser),
                                           !.store.tokenExpiry = expiry,
                                           !.store.isAuthenticated = TRUE,
                                           !.authToken = Unstr(storedToken),
                                           !.written = TRUE]
                            ELSE w
                 ELSE logout(w)
          ELSE w
  IN  [w1 EXCEPT !.store.isLoading = FALSE]

\* the mount effect: restore the session from localStorage
restore(w, t) ==
  LET storedToken == w.ls.token
      storedUser == w.ls.user
      storedExpiry == w.ls.expiry
      w1 ==
        IF storedToken # Absent /\ storedUser # Absent
          THEN IF JSONparses(storedUser)
                 THEN LET expiry == IF storedExpiry # Absent
                                      THEN ParseDate(storedExpiry) ELSE NoDate
                      IN  IF expiry # NoDate /\ expiry > t
                            THEN [w EXCEPT !.store.token = Unstr(storedToken),
                                           !.store.user = JSONparse(storedUser),
                                           !.store.tokenExpiry = expiry,
                                           !.store.isAuthenticated = TRUE,
                                           !.authToken = Unstr(storedToken),
                                           !.written = TRUE]
                            ELSE logout(w)
                 ELSE logout(w)
          ELSE w
  IN  [w1 EXCEPT !.store.isLoading = FALSE]

\* ------------------------------------------------------------- the effects
\* expiry-watch effect, dependencies [isAuthenticated, tokenExpiry]
ExpiryWatch(old, w) ==
  IF old.isAuthenticated = w.store.isAuthenticated
     /\ old.tokenExpiry = w.store.tokenExpiry /\ ~w.written
    THEN expiryTimer
    ELSE IF w.store.isAuthenticated /\ w.store.tokenExpiry # NoDate
           THEN [on |-> TRUE, cExpiry |-> w.store.tokenExpiry,
                 cUser |-> w.store.user]
           ELSE NoExpiryTimer

\* a periodic health effect that returns no cleanup
PeriodicHealthNoCleanup(old, w) ==
  IF old.isAuthenticated = w.store.isAuthenticated
    THEN healthTimer
    ELSE IF w.store.isAuthenticated
           THEN [on |-> TRUE, cErr |-> w.store.error # NULL]
           ELSE healthTimer

\* periodic health effect, dependencies [isAuthenticated]
PeriodicHealth(old, w) ==
  IF old.isAuthenticated = w.store.isAuthenticated
    THEN healthTimer
    ELSE IF w.store.isAuthenticated
           THEN [on |-> TRUE, cErr |-> w.store.error # NULL]
           ELSE NoHealthTimer

\* initializeApi effect, dependencies [isAuthenticated, isLoading]: the
\* requests it issues right away
InitializeApi(old, w) ==
  IF (old.isAuthenticated # w.store.isAuthenticated
      \/ old.isLoading # w.store.isLoading) /\ ~w.store.isLoading
    THEN {Request("health", NULL, w.store.isAuthenticated,
                  w.store.isAuthenticated, w.store.error # NULL)}
    ELSE {}

\* the end of a step: the batched updates are committed, the component
\* re-renders and the effects run; old is the store of the previous render
Commit(old, w, reqs) ==
  LET all == reqs \cup InitializeApi(old, w)
  IN  /\ Cardinality(all) <= MaxInFlight
      /\ store' = w.store
      /\ ls' = w.ls
      /\ authToken' = w.authToken
      /\ inflight' = all
      /\ expiryTimer' = ExpiryWatch(old, w)
      /\ healthTimer' = PeriodicHealth(old, w)

\* ------------------------------------------------------------------- Init
Mounted(storage, t) ==
  LET w0 == [store |-> EmptyStore, ls |-> storage, authToken |-> NULL,
             events |-> <<>>, seen |-> <<>>,
             written |-> FALSE]
      w == restore(w0, t)
  IN  [w |-> w,
       reqs |-> {Request("health", NULL, w.store.isAuthenticated,
                         w.store.isAuthenticated, w.store.error # NULL)},
       expiryTimer |-> IF w.store.isAuthenticated /\ w.store.tokenExpiry # NoDate
                         THEN [on |-> TRUE, cExpiry |-> w.store.tokenExpiry,
                               cUser |-> w.store.user]
                         ELSE NoExpiryTimer,
       healthTimer |-> IF w.store.isAuthenticated
                         THEN [on |-> TRUE, cErr |-> w.store.error # NULL]
                         ELSE NoHealthTimer]

Init ==
  LET m == Mounted(EmptyLS, 0)
  IN  /\ store = m.w.store
      /\ ls = m.w.ls
      /\ authToken = m.w.authToken
      /\ inflight = m.reqs
      /\ expiryTimer = m.expiryTimer
      /\ healthTimer = m.healthTimer
      /\ now = 0

\* ---------------------------------------------------------------- actions
\* AppRoutes renders a spinner instead of the routes while isLoading, so no
\* page, and no button that calls into the store, exists then
UIShown == ~store.isLoading

\* what ProtectedRoute renders from store s: the spinner, the
\* authentication-required screen, the administrator-required screen or
\* its children
ProtectedRoute(s, adminOnly) ==
  IF s.isLoading THEN "loading"
  ELSE IF ~s.isAuthenticated THEN "unauthenticated"
  ELSE IF adminOnly /\ s.user # NULL /\ ~is_admin(s.user) THEN "forbidden"
  ELSE "children"

\* the page is reloaded: memory is lost, localStorage stays
Reload ==
  LET m == Mounted(ls, now)
  IN  /\ store' = m.w.store
      /\ ls' = m.w.ls
      /\ authToken' = m.w.authToken
      /\ inflight' = m.reqs
      /\ expiryTimer' = m.expiryTimer
      /\ healthTimer' = m.healthTimer
      /\ UNCHANGED now

Tick ==
  /\ now < MaxNow
  /\ now' = now + 1
  /\ UNCHANGED <<store, ls, authToken, inflight, expiryTimer, healthTimer>>

\* refreshUserInfo of a render whose isAuthenticated was cAuth, up to its
\* await of apiService.getCurrentUser: the request it issues, if any
refreshUserInfoCall(cAuth) ==
  IF ~cAuth THEN {}
  ELSE {Request("me", NULL, FALSE, TRUE, FALSE)}

\* a login that forgets apiService.setAuthToken
loginOkNoClientToken(w, tok, ein, t) ==
  [w EXCEPT !.store.token = tok,
            !.store.isAuthenticated = TRUE,
            !.store.tokenExpiry = t + ein,
            !.written = TRUE,
            !.ls.token = Str(tok),
            !.ls.expiry = toISOString(t + ein),
            !.store.isLoading = FALSE]

\* login from the answer on when the answer carries access_token: returns true
loginOk(w, tok, ein, t) ==
  [w EXCEPT !.store.token = tok,
            !.store.isAuthenticated = TRUE,
            !.store.tokenExpiry = t + ein,
            !.written = TRUE,
            !.ls.token = Str(tok),
            !.ls.expiry = toISOString(t + ein),
            !.authToken = tok,
            !.store.isLoading = FALSE]

\* login from the answer on when a 2xx answer has no access_token: returns false
loginNoToken(w) == [w EXCEPT !.store.isLoading = FALSE]

\* login when apiService.login rejects: the interceptor, then catch and
\* finally: returns false
loginCatch(w, status) ==
  [setError(responseError(w, status), ErrMessage(status))
     EXCEPT !.store.isLoading = FALSE]

\* login up to its await of apiService.login; the login page is the only
\* caller and is rendered when the store is not authenticated
LoginCall(cred) ==
  LET w == [World EXCEPT !.store.isLoading = TRUE, !.store.error = NULL]
      r == Request("login", cred, FALSE, store.isAuthenticated, FALSE)
  IN  /\ UIShown /\ ~store.isAuthenticated
      /\ r \notin inflight
      /\ Commit(store, w, inflight \cup {r})
      /\ UNCHANGED now

\* the answer to apiService.login carries a token; await refreshUserInfo()
\* runs the refreshUserInfo of the render that created this login, which
\* returns at once because that render was not authenticated
LoginSuccess(r, tok, ein) ==
  /\ r \in inflight /\ r.kind = "login" /\ r.cred = "good"
  /\ Commit(store, loginOk(World, tok, ein, now),
            (inflight \ {r}) \cup refreshUserInfoCall(r.cAuth))
  /\ UNCHANGED now

LoginMalformed(r) ==
  /\ r \in inflight /\ r.kind = "login" /\ r.cred = "good"
  /\ Commit(store, loginNoToken(World), inflight \ {r})
  /\ UNCHANGED now

Logout ==
  /\ UIShown
  /\ Commit(store, logout(World), inflight)
  /\ UNCHANGED now

\* refreshHealth up to its await of apiService.health
refreshHealthCall(cErr) ==
  Request("health", NULL, FALSE, FALSE, cErr)

\* a refreshHealth whose success clears only the error its render saw
refreshHealthDoneKeepsLaterError(w, status, cErr) ==
  IF status = 200
    THEN [w EXCEPT !.store.health = HealthOk,
                   !.store.isConnected = TRUE,
                   !.store.error = IF cErr THEN NULL ELSE @]
    ELSE LET w1 == [responseError(w, status) EXCEPT !.store.isConnected = FALSE]
         IN  IF ~cErr THEN setError(w1, ErrMessage(status)) ELSE w1

\* refreshHealth from its await on, as created by a render whose error was cErr
refreshHealthDone(w, status, cErr) ==
  IF status = 200
    THEN [w EXCEPT !.store.health = HealthOk,
                   !.store.isConnected = TRUE,
                   !.store.error = NULL]
    ELSE LET w1 == [responseError(w, status) EXCEPT !.store.isConnected = FALSE]
         IN  IF ~cErr THEN setError(w1, ErrMessage(status)) ELSE w1

\* a refreshUserInfo that logs out on every failure
refreshUserInfoDoneLogsOutOnFailure(w, status, u) ==
  IF status = 200
    THEN [w EXCEPT !.store.user = u, !.ls.user = JSONstringify(u)]
    ELSE logout(responseError(w, status))

\* refreshUserInfo from its await on
refreshUserInfoDone(w, status, u) ==
  IF status = 200
    THEN [w EXCEPT !.store.user = u, !.ls.user = JSONstringify(u)]
    ELSE LET w1 == responseError(w, status)
         IN  IF Includes401(ErrMessage(status)) THEN logout(w1) ELSE w1

\* a changePassword that ends the session on every failure
changePasswordDoneLogsOut(w, status) ==
  IF status = 200 THEN w
  ELSE setError(logout(responseError(w, status)), ErrMessage(status))

\* changePassword from its await on: returns true on 2xx, else false
changePasswordDone(w, status) ==
  IF status = 200 THEN w
  ELSE setError(responseError(w, status), ErrMessage(status))

\* the answer with this status to request r reaches the interceptor and then
\* the continuation of the method that issued r (u is the user record of a
\* 2xx answer to /auth/me); a 2xx answer to login is loginOk or loginNoToken
Answered(w, r, status, u) ==
  CASE r.kind = "login"  -> loginCatch(w, status)
    [] r.kind = "health" -> refreshHealthDone(w, status, r.cErr)
    [] r.kind = "me"     -> refreshUserInfoDone(w, status, u)
    [] r.kind = "chpw"   -> changePasswordDone(w, status)

\* apiService.login rejects: credentials refused, or no usable answer
LoginFailure(r, status) ==
  /\ r \in inflight /\ r.kind = "login"
  /\ IF r.cred = "bad" THEN status \in RejectStatuses
                       ELSE status \in {0, 500}
  /\ Commit(store, Answered(World, r, status, NULL), inflight \ {r})
  /\ UNCHANGED now

\* the header's refresh button, AuthStatusDashboard's refresh
RefreshHealthCall ==
  LET r == refreshHealthCall(store.error # NULL)
  IN  /\ UIShown
      /\ r \notin inflight
      /\ Commit(store, World, inflight \cup {r})
      /\ UNCHANGED now

\* the answer to apiService.health; after it initializeApi goes on with
\* refreshUserInfo of the render that started it
HealthResponse(r, status) ==
  LET w == Answered(World, r, status, NULL)
      more == IF r.init /\ r.cAuth
                THEN refreshUserInfoCall(r.cAuth)
                ELSE {}
  IN  /\ r \in inflight /\ r.kind = "health"
      /\ more \cap inflight = {}
      /\ Commit(store, w, (inflight \ {r}) \cup more)
      /\ UNCHANGED now

\* AccountSettings and AuthStatusDashboard call refreshUserInfo
RefreshUserInfoCall ==
  LET rs == refreshUserInfoCall(store.isAuthenticated)
  IN  /\ UIShown
      /\ rs \cap inflight = {}
      /\ Commit(store, World, inflight \cup rs)
      /\ UNCHANGED now

UserInfoResponse(r, status, u) ==
  /\ r \in inflight /\ r.kind = "me"
  /\ Commit(store, Answered(World, r, status, u), inflight \ {r})
  /\ UNCHANGED now

\* changePassword up to its await, called by a page of a signed-in user
ChangePasswordCall ==
  LET r == Request("chpw", NULL, FALSE, TRUE, FALSE)
  IN  /\ UIShown /\ store.isAuthenticated
      /\ r \notin inflight
      /\ Commit(store, setError(World, NULL), inflight \cup {r})
      /\ UNCHANGED now

ChangePasswordResponse(r, status) ==
  /\ r \in inflight /\ r.kind = "chpw"
  /\ Commit(store, Answered(World, r, status, NULL), inflight \ {r})
  /\ UNCHANGED now

\* AuthStatusDashboard's refresh-token button, shown to a signed-in user
RefreshTokenCall ==
  /\ UIShown /\ store.isAuthenticated
  /\ Commit(store, refreshToken(World, store.user, now), inflight)
  /\ UNCHANGED now

\* the expiry-watch interval fires
ExpiryCheck ==
  /\ expiryTimer.on
  /\ Commit(store,
            checkTokenExpiry(World, expiryTimer.cExpiry, expiryTimer.cUser, now),
            inflight)
  /\ UNCHANGED now

\* the periodic health interval fires
HealthCheck ==
  LET r == refreshHealthCall(healthTimer.cErr)
  IN  /\ healthTimer.on
      /\ r \notin inflight
      /\ Commit(store, World, inflight \cup {r})
      /\ UNCHANGED now

\* the tokens the backend may issue next.  Token values are opaque and no
\* token is known before the first login, so the names are interchangeable:
\* while no token is held anywhere the one issued is called "t1"
IssuableTokens ==
  IF store.token = NULL /\ authToken = NULL /\ ls.token = Absent
    THEN {"t1"} ELSE Tokens

Next ==
  \/ Reload
  \/ Tick
  \/ \E cred \in Credentials : LoginCall(cred)
  \/ \E r \in inflight, tok \in IssuableTokens, ein \in ExpiresIn :
       LoginSuccess(r, tok, ein)
  \/ \E r \in inflight : LoginMalformed(r)
  \/ \E r \in inflight, status \in FailStatuses : LoginFailure(r, status)
  \/ Logout
  \/ RefreshHealthCall
  \/ \E r \in inflight, status \in FailStatuses \cup {200} : HealthResponse(r, status)
  \/ RefreshUserInfoCall
  \/ \E r \in inflight, status \in FailStatuses \cup {200}, u \in Users :
       UserInfoResponse(r, status, u)
  \/ ChangePasswordCall
  \/ \E r \in inflight, status \in FailStatuses \cup {200} : ChangePasswordResponse(r, status)
  \/ RefreshTokenCall
  \/ ExpiryCheck
  \/ HealthCheck

Spec == Init /\ [][Next]_vars

\* ------------------------------------------------- startup on any storage
\* what the three keys may hold when the page is loaded: nothing, a value the
\* application wrote, or a string it cannot read
StoredTokens == {Absent} \cup {Str(tok) : tok \in Tokens}
StoredUsers == {Absent, Str("{")} \cup {JSONstringify(u) : u \in Users}
StoredExpiries ==
  {Absent, Str("never")} \cup {toISOString(t) : t \in 0..(MaxNow + 1)}

\* the page is being loaded: AuthProvider has its initial state, no effect has
\* run yet and localStorage holds whatever was left there
StartInit ==
  /\ store = EmptyStore
  /\ ls \in [token : StoredTokens, user : StoredUsers, expiry : StoredExpiries]
  /\ authToken = NULL
  /\ inflight = {}
  /\ expiryTimer = NoExpiryTimer
  /\ healthTimer = NoHealthTimer
  /\ now = 0

\* mounting (Reload mounts on the storage as it is), the clock and logout
StartNext ==
  \/ Reload
  \/ Tick
  \/ Logout

StartSpec == StartInit /\ [][StartNext]_vars

\* ------------------------------------------------------------------ claims
\* in world w the session fields and what goes with them are all cleared
SessionClearedIn(w) ==
  /\ ~w.store.isAuthenticated
  /\ w.store.user = NULL /\ w.store.token = NULL /\ w.store.tokenExpiry = NoDate
  /\ w.ls = EmptyLS
  /\ w.authToken = NULL

\* C1: a 401 answer to any call in flight while the store is Authenticated
\* broadcasts auth-expired (once) and leaves the store Unauthenticated with
\* token, user and expiry cleared, the three keys removed and the client's
\* token slot empty
C1_AuthExpiredForcesLogout ==
  store.isAuthenticated =>
    \A r \in inflight, u \in Users :
      LET w == Answered(World, r, 401, u)
      IN  w.events = <<"auth-expired">> /\ SessionClearedIn(w)

\* an Authenticated store with a persisted snapshot and a call in flight
\* that is answered with 401
C1_Witness ==
  /\ store.isAuthenticated /\ ls.token # Absent /\ authToken # NULL
  /\ ENABLED (\E r \in inflight :
                \/ HealthResponse(r, 401)
                \/ \E u \in Users : UserInfoResponse(r, 401, u)
                \/ ChangePasswordResponse(r, 401))

\* C2 as stated: user, token and expiry are all present with authenticated
\* true, or all absent with authenticated false
C2_AllPresentOrAllAbsent ==
  \/ /\ store.isAuthenticated
     /\ store.user # NULL /\ store.token # NULL /\ store.tokenExpiry # NoDate
  \/ /\ ~store.isAuthenticated
     /\ store.user = NULL /\ store.token = NULL /\ store.tokenExpiry = NoDate

\* C2 amended: token and expiry are both present exactly when authenticated
\* is true; the user record is not tied to them
C2_TokenAndExpiryTiedToAuthenticated ==
  \/ store.isAuthenticated /\ store.token # NULL /\ store.tokenExpiry # NoDate
  \/ ~store.isAuthenticated /\ store.token = NULL /\ store.tokenExpiry = NoDate

\* authenticated with token and expiry while the user record is still absent
C2_Witness ==
  /\ store.isAuthenticated /\ store.user = NULL
  /\ store.token # NULL /\ store.tokenExpiry # NoDate

\* C3: when login returns true the store is Authenticated with user, token
\* and expiry set and the expiry later than now
C3_LoginTrueSetsAll ==
  [][\A r \in inflight, tok \in Tokens, ein \in ExpiresIn :
       LoginSuccess(r, tok, ein)
         => /\ store'.isAuthenticated
            /\ store'.user # NULL /\ store'.token # NULL
            /\ store'.tokenExpiry # NoDate /\ store'.tokenExpiry > now']_vars

\* C4: a rejected login called on an Unauthenticated store leaves it
\* Unauthenticated with no token key in storage
C4_RejectedLoginLeavesNoToken ==
  [][\A r \in inflight, status \in RejectStatuses :
       (LoginFailure(r, status) /\ r.cred = "bad" /\ ~r.cAuth)
         => ~store'.isAuthenticated /\ ls'.token = Absent]_vars

\* C5: every failing login (rejected, no answer, 2xx without access_token)
\* leaves lastError non-empty
C5_FailedLoginSetsError ==
  [][(\E r \in inflight :
        \/ LoginMalformed(r)
        \/ \E status \in FailStatuses : LoginFailure(r, status))
       => store'.error # NULL]_vars

\* C6: after a rejected login lastError is set and is not the message of the
\* error the transport threw
C6_RejectedLoginHidesRawError ==
  [][\A r \in inflight, status \in RejectStatuses :
       LoginFailure(r, status)
         => /\ store'.error # NULL
            /\ store'.error \notin {ErrMessage(x) : x \in FailStatuses}]_vars

\* C7: from any state logout leaves the session cleared, and a second logout
\* changes neither the store nor storage nor the client's token slot
C7_LogoutClearsAndIsIdempotent ==
  LET once == logout(World)
      twice == logout(once)
  IN  /\ SessionClearedIn(once)
      /\ twice.store = once.store
      /\ twice.ls = once.ls
      /\ twice.authToken = once.authToken

\* an Authenticated store with a persisted snapshot in which logout is called
C7_Witness ==
  /\ store.isAuthenticated /\ ls.token # Absent /\ ls.user # Absent
  /\ ENABLED Logout

\* C8: no timer exists while the store is Unauthenticated, and the expiry
\* the expiry-watch callback captured is the expiry of the current session
C8_TimersCancelledOutsideSession ==
  /\ ~store.isAuthenticated => ~expiryTimer.on /\ ~healthTimer.on
  /\ expiryTimer.on => expiryTimer.cExpiry = store.tokenExpiry

\* Unauthenticated after a forced logout, both timers gone
C8_Witness ==
  /\ ~store.isAuthenticated /\ store.error = SessionExpiredMsg
  /\ ~expiryTimer.on /\ ~healthTimer.on

\* C9: a write to the expiry of a running session clears it or moves it to
\* an instant not earlier than before and later than now
C9_ExpiryOnlyMovesForward ==
  [][(store.isAuthenticated /\ store.tokenExpiry # NoDate
        /\ store'.tokenExpiry # store.tokenExpiry)
       => \/ store'.tokenExpiry = NoDate
          \/ /\ store'.tokenExpiry >= store.tokenExpiry
             /\ store'.tokenExpiry > now']_vars

\* C10: an expiry-watch check that finds 0 < remaining <= low-water mark
\* renews (the expiry moves forward) and does not log out
C10_LowWaterCheckRenews ==
  (expiryTimer.on /\ expiryTimer.cExpiry - now > 0
     /\ expiryTimer.cExpiry - now <= LowWaterMark)
    => LET w == checkTokenExpiry(World, expiryTimer.cExpiry, expiryTimer.cUser, now)
       IN  /\ w.store.isAuthenticated
           /\ w.store.tokenExpiry > store.tokenExpiry

\* C11: an expiry-watch check that finds remaining <= 0 leaves the store
\* Unauthenticated with state and persisted snapshot cleared and lastError
\* the session-expired message
C11_ExpiredCheckForcesLogout ==
  (expiryTimer.on /\ expiryTimer.cExpiry - now <= 0)
    => LET w == checkTokenExpiry(World, expiryTimer.cExpiry, expiryTimer.cUser, now)
       IN  SessionClearedIn(w) /\ w.store.error = SessionExpiredMsg

\* an Authenticated store with a persisted snapshot whose expiry-watch
\* interval fires at or after the expiry instant
C11_Witness ==
  /\ store.isAuthenticated /\ ls.token # Absent
  /\ expiryTimer.on /\ expiryTimer.cExpiry - now <= 0
  /\ ENABLED ExpiryCheck

\* C12: once a 401 to a call of an Authenticated store has been handled by
\* the interceptor, the auth-expired listener and the caller's own error
\* handling, lastError is the session-expired message
C12_ErrorAfter401IsSessionExpired ==
  store.isAuthenticated =>
    \A r \in inflight, u \in Users :
      Answered(World, r, 401, u).store.error = SessionExpiredMsg

\* C13: a failing refreshHealth (of the timer or called directly) sets
\* connected to false, keeps a lastError that is set when the failure is
\* handled and sets one when none is
C13_HealthFailureRespectsCurrentError ==
  \A r \in inflight, status \in FailStatuses \ {401} :
    r.kind = "health" =>
      LET w == Answered(World, r, status, NULL)
      IN  /\ ~w.store.isConnected
          /\ store.error # NULL => w.store.error = store.error
          /\ store.error = NULL => w.store.error # NULL

\* in world w authenticated, user, token, expiry and the persisted snapshot
\* are what they are in the current state
SameSession(w) ==
  /\ w.store.isAuthenticated = store.isAuthenticated
  /\ w.store.user = store.user
  /\ w.store.token = store.token
  /\ w.store.tokenExpiry = store.tokenExpiry
  /\ w.ls = ls

\* C14 as stated: no answer to changePassword changes token or expiry, and
\* every failure, 401 included, sets lastError and leaves authenticated, user
\* and the persisted snapshot as they were
C14_ChangePasswordKeepsSession ==
  \A r \in inflight :
    r.kind = "chpw" =>
      /\ SameSession(Answered(World, r, 200, NULL))
      /\ \A status \in FailStatuses :
           LET w == Answered(World, r, status, NULL)
           IN  w.store.error # NULL /\ SameSession(w)

\* C14 amended: the call and a 2xx answer leave the session alone; a failure
\* other than 401 sets lastError and leaves the session and the client's
\* token alone; a 401 sets lastError and ends the session as for any call
C14_ChangePasswordKeepsSessionUnless401 ==
  /\ SameSession(setError(World, NULL))
  /\ \A r \in inflight :
       r.kind = "chpw" =>
         /\ SameSession(Answered(World, r, 200, NULL))
         /\ \A status \in FailStatuses \ {401} :
              LET w == Answered(World, r, status, NULL)
              IN  /\ w.store.error # NULL
                  /\ SameSession(w)
                  /\ w.authToken = authToken
         /\ LET w == Answered(World, r, 401, NULL)
            IN  w.store.error # NULL /\ SessionClearedIn(w)

\* an Authenticated store with its user loaded and a persisted snapshot
\* while a changePassword request is in flight
C14_Witness ==
  /\ store.isAuthenticated /\ store.user # NULL /\ ls.user # Absent
  /\ \E r \in inflight : r.kind = "chpw" /\ ENABLED ChangePasswordResponse(r, 401)

\* C15: mounting on a snapshot that holds a token and a user and whose expiry
\* is absent, unreadable or not later than now leaves the store
\* Unauthenticated, the client's token slot empty and the three keys removed
C15_ExpiredSnapshotIsDiscarded ==
  (/\ ls.token # Absent /\ ls.user # Absent
   /\ ls.expiry \in {Absent, Str("never")} \cup {toISOString(t) : t \in 0..now})
    => SessionClearedIn(Mounted(ls, now).w)

\* the page is being loaded on a snapshot with token, readable user and an
\* expiry that is absent, unreadable or not later than now
C15_Witness ==
  /\ store.isLoading
  /\ ls.token # Absent /\ JSONparses(ls.user)
  /\ ls.expiry \in {Absent, Str("never")} \cup {toISOString(t) : t \in 0..now}
  /\ ENABLED Reload

\* C16: mounting on a snapshot of which some key is missing and some key is
\* present leaves the store Unauthenticated and storage without any key
C16_PartialSnapshotIsErased ==
  (/\ Absent \in {ls.token, ls.user, ls.expiry}
   /\ ls # EmptyLS)
    => LET m == Mounted(ls, now)
       IN  ~m.w.store.isAuthenticated /\ m.w.ls = EmptyLS

\* C17: between store operations the three persisted keys are all present or
\* all absent
C17_KeysAllOrNone ==
  \/ ls = EmptyLS
  \/ ls.token # Absent /\ ls.user # Absent /\ ls.expiry # Absent

\* C18: when the user record of the session has been fetched and persisted
\* and the expiry is still ahead, mounting again on the persisted snapshot
\* gives authenticated = true with the same token, user and expiry and sets
\* the same token on the client
C18_RestoreReproducesSession ==
  (/\ store.isAuthenticated /\ store.user # NULL
   /\ ls.user # Absent
   /\ store.tokenExpiry > now)
    => LET m == Mounted(ls, now)
       IN  /\ m.w.store.isAuthenticated
           /\ m.w.store.token = store.token
           /\ m.w.store.user = store.user
           /\ m.w.store.tokenExpiry = store.tokenExpiry
           /\ m.w.authToken = store.token

\* a session begun by login at a later instant than 0, its user record
\* fetched and persisted, its expiry ahead, and the page about to be reloaded
C18_Witness ==
  /\ store.isAuthenticated /\ store.user # NULL /\ ls.user # Absent
  /\ now > 0 /\ store.tokenExpiry > now
  /\ expiryTimer.on /\ expiryTimer.cUser = NULL
  /\ ENABLED Reload

\* C19: when two calls in flight of an Authenticated store are each answered
\* 401, in either order, the store, storage and the client's token slot
\* after the second are what they were after the first
C19_SecondAuthExpiredChangesNothing ==
  store.isAuthenticated =>
    \A r1 \in inflight, u \in Users : \A r2 \in inflight \ {r1} :
      LET first == Answered(World, r1, 401, u)
          second == Answered(first, r2, 401, u)
      IN  /\ ~first.store.isAuthenticated
          /\ second.store = first.store
          /\ second.ls = first.ls
          /\ second.authToken = first.authToken

\* the part of C19 that does not involve lastError: the session fields,
\* storage and the client's token slot after the second 401 are what they
\* were after the first
C19_SecondAuthExpiredKeepsSessionCleared ==
  store.isAuthenticated =>
    \A r1 \in inflight, u \in Users : \A r2 \in inflight \ {r1} :
      LET first == Answered(World, r1, 401, u)
          second == Answered(first, r2, 401, u)
      IN  /\ SessionClearedIn(first) /\ SessionClearedIn(second)
          /\ [second.store EXCEPT !.error = NULL]
               = [first.store EXCEPT !.error = NULL]

\* C20: the answer to a user-info request that is still in flight when the
\* store is Unauthenticated (the session that issued it is over) is
\* discarded: a success sets no user and writes no key, a 401 changes
\* neither authenticated nor token nor lastError
C20_LateAnswerIsDiscarded ==
  ~store.isAuthenticated =>
    \A r \in inflight, u \in Users :
      r.kind = "me" =>
        /\ LET w == Answered(World, r, 200, u)
           IN  w.store.user = store.user /\ w.ls = ls
        /\ LET w == Answered(World, r, 401, u)
           IN  /\ w.store.isAuthenticated = store.isAuthenticated
               /\ w.store.token = store.token
               /\ w.store.error = store.error

\* statuses of failed calls the classification is checked on: no response,
\* 4xx, 5xx
ClassifiedStatuses == FailStatuses \cup {404, 422, 503}

\* C21: what a failed call broadcasts depends on its status alone:
\* auth-expired for 401, with the client's token slot already empty when it is
\* dispatched, access-denied for 403, server-error for 500 and above, nothing
\* otherwise; never more than one signal; and the failure reaches the
\* caller's own error handling
C21_ClassificationByStatus ==
  /\ \A status \in ClassifiedStatuses :
       LET w == responseError(World, status)
       IN  /\ w.events = IF status = 401 THEN <<"auth-expired">>
                         ELSE IF status = 403 THEN <<"access-denied">>
                         ELSE IF status >= 500 THEN <<"server-error">>
                         ELSE <<>>
           /\ status = 401 => w.seen = <<NULL>>
  /\ \A r \in inflight, status \in FailStatuses :
       LET w == Answered(World, r, status, NULL)
       IN  /\ Len(w.events) <= 1
           /\ r.kind \in {"login", "chpw"} => w.store.error = ErrMessage(status)
           /\ r.kind = "health" => ~w.store.isConnected

\* a client that holds a token while a call is in flight that may fail with
\* any status
C21_Witness ==
  /\ authToken # NULL
  /\ \E r \in inflight :
       /\ ENABLED ChangePasswordResponse(r, 401)
       /\ ENABLED ChangePasswordResponse(r, 403)
       /\ ENABLED ChangePasswordResponse(r, 500)
       /\ ENABLED ChangePasswordResponse(r, 0)

\* C22: a 403, a 5xx or a failure without response to any call in flight
\* leaves authenticated, user, token, expiry, the persisted snapshot and the
\* client's token slot as they are
C22_OtherFailuresKeepSession ==
  \A r \in inflight, u \in Users, status \in {0, 403, 500} :
    LET w == Answered(World, r, status, u)
    IN  SameSession(w) /\ w.authToken = authToken

\* an Authenticated store with a persisted snapshot whose user-info request
\* is answered 403
C22_Witness ==
  /\ store.isAuthenticated /\ ls.token # Absent /\ authToken # NULL
  /\ \E r \in inflight, u \in Users : ENABLED UserInfoResponse(r, 403, u)

\* C23: login, logout, a forced expiry and the handling of auth-expired leave
\* connected and lastHealth as they are
C23_OnlyHealthCheckChangesConnected ==
  LET same(w) == /\ w.store.isConnected = store.isConnected
                 /\ w.store.health = store.health
  IN  /\ same(logout(World))
      /\ same(handleAuthExpired(World))
      /\ expiryTimer.on =>
           same(checkTokenExpiry(World, expiryTimer.cExpiry, expiryTimer.cUser, now))
      /\ \A r \in inflight, tok \in Tokens, ein \in ExpiresIn :
           r.kind = "login" => same(loginOk(World, tok, ein, now))

\* C24: refreshUserInfo issues no request on an unauthenticated store and one
\* on an authenticated store, also when called by login after a successful
\* answer; a user-info fetch failing with another status than 401 leaves
\* authenticated, token, expiry and lastError as they are
C24_UserInfoRequestedIffAuthenticated ==
  /\ refreshUserInfoCall(store.isAuthenticated) # {} <=> store.isAuthenticated
  /\ \A r \in inflight, tok \in Tokens, ein \in ExpiresIn :
       (r.kind = "login" /\ r.cred = "good") =>
         /\ loginOk(World, tok, ein, now).store.isAuthenticated
         /\ refreshUserInfoCall(r.cAuth) # {}
  /\ \A r \in inflight, status \in FailStatuses \ {401} :
       (r.kind = "me" /\ store.isAuthenticated) =>
         LET w == Answered(World, r, status, NULL)
         IN  /\ w.store.isAuthenticated
             /\ w.store.token = store.token
             /\ w.store.tokenExpiry = store.tokenExpiry
             /\ w.store.error = store.error

\* C25: on an Authenticated store, with the user record fetched or not,
\* renewToken returns true, sets the expiry to now plus the renewal window,
\* writes the same instant to the persisted expiry key and leaves token and
\* user as they are
C25_RenewTokenExtendsAnySession ==
  store.isAuthenticated =>
    LET w == refreshToken(World, store.user, now)
    IN  /\ refreshTokenOk(store.user)
        /\ w.store.tokenExpiry = now + RenewWindow
        /\ w.ls.expiry = toISOString(now + RenewWindow)
        /\ w.store.token = store.token
        /\ w.store.user = store.user

\* C26: a request issued in any state carries a bearer exactly when the
\* client's token slot is non-empty, and then the slot's value; after logout
\* the slot is empty, and from an empty slot no handler other than a
\* successful login makes a request carry a bearer again
C26_BearerIffClientToken ==
  /\ requestInterceptor(World) # Absent <=> authToken # NULL
  /\ authToken # NULL => requestInterceptor(World) = <<"Bearer", authToken>>
  /\ requestInterceptor(logout(World)) = Absent
  /\ authToken = NULL =>
       /\ \A r \in inflight, u \in Users, status \in FailStatuses \cup {200} :
            (r.kind # "login" \/ status # 200) =>
              requestInterceptor(Answered(World, r, status, u)) = Absent
       /\ requestInterceptor(loginNoToken(World)) = Absent
       /\ requestInterceptor(handleAuthExpired(World)) = Absent
       /\ requestInterceptor(refreshToken(World, store.user, now)) = Absent
       /\ expiryTimer.on =>
            requestInterceptor(checkTokenExpiry(World, expiryTimer.cExpiry,
                                                expiryTimer.cUser, now)) = Absent

\* a session has been ended (a request of it is still in flight), the slot
\* is empty and a further request can be issued
C26_Witness ==
  /\ ~store.isAuthenticated /\ authToken = NULL
  /\ \E r \in inflight : r.kind = "me"
  /\ ENABLED RefreshHealthCall

\* C27: a login rejected by the backend, with whatever status, leaves
\* authenticated, user, token, expiry, connected, lastHealth, the persisted
\* snapshot and the client's token slot as they are and triggers no
\* auth-expired handling
C27_RejectedLoginChangesOnlyError ==
  \A r \in inflight, status \in RejectStatuses :
    (r.kind = "login" /\ r.cred = "bad") =>
      LET w == Answered(World, r, status, NULL)
      IN  /\ SameSession(w)
          /\ w.authToken = authToken
          /\ w.store.isConnected = store.isConnected
          /\ w.store.health = store.health
          /\ w.events = <<>>

C29_AdminOnlyRendersForAdminsOnly ==
  ProtectedRoute(store, TRUE) = "children"
    => /\ store.isAuthenticated
       /\ store.user # NULL
       /\ is_admin(store.user)

\* C30: a successful answer to any health request in flight sets connected,
\* stores the health snapshot and empties lastError; an expiry check that
\* forces a logout makes the store issue a health request, whose success
\* empties the session-expired message
C30_HealthSuccessClearsError ==
  /\ \A r \in inflight :
       r.kind = "health" =>
         LET w == Answered(World, r, 200, NULL)
         IN  /\ w.store.isConnected
             /\ w.store.health = HealthOk
             /\ w.store.error = NULL
  /\ (expiryTimer.on /\ store.isAuthenticated /\ expiryTimer.cExpiry - now <= 0) =>
       LET w == checkTokenExpiry(World, expiryTimer.cExpiry, expiryTimer.cUser, now)
       IN  /\ w.store.error = SessionExpiredMsg
           /\ InitializeApi(store, w) # {}
           /\ \A r \in InitializeApi(store, w) :
                /\ r.kind = "health"
                /\ refreshHealthDone(w, 200, r.cErr).store.error = NULL

\* after a forced logout the session-expired message is shown and the
\* re-run health check is about to succeed
C30_Witness ==
  /\ ~store.isAuthenticated /\ store.error = SessionExpiredMsg
  /\ \E r \in inflight : ENABLED HealthResponse(r, 200)

====
